---- MODULE Spec2Model ----
(***************************************************************************)
(* ResearchFetcher (services/research_fetcher.py): three source clients,   *)
(* their memoization and pacing, and the aggregation of fetch_all_papers   *)
(* over a thread pool.                                                     *)
(*                                                                         *)
(* Strings are sequences of one-character strings, so that lower(), the    *)
(* substring test `term in text` and slicing are computed, not assumed.    *)
(* A relevance score is kept in tenths: 5 is 0.5, 10 is 1.0.                *)
(* Time is counted in seconds.                                              *)
(***************************************************************************)
EXTENDS Integers, Sequences, FiniteSets, TLC

(***************************************************************************)
(* Bounds of the model                                                     *)
(***************************************************************************)
\* Queries are 1..NumQueries; each one has its own provider index.
NumQueries == 2
\* Results a provider holds for one query under Spec.
MaxRecords == 2
\* Under SpecPages a provider's answer is at most this much short of a full page.
PageSlack == 1
\* Calls of the source clients in one behaviour of SpecClients, one after the other.
MaxCalls == 2
\* Phrases in an abstract that calculate_relevance_score is called on
MaxPhrases == 2
\* Threads that call into one ResearchFetcher at the same time
NumThreads == 2
\* Distinct queries asked of one memoized client beyond the size of its cache
CacheSlack == 2

(***************************************************************************)
(* Program constants                                                       *)
(***************************************************************************)
CACHE_SIZE == 128
ARXIV_MAX_PAPERS == 10
PUBMED_MAX_PAPERS == 10
SCHOLAR_MAX_PAPERS == 5
MAX_WORKERS == 3
\* self._min_request_interval = 2.0
MinRequestInterval == 2
\* the length of the list fetch_all_papers returns (321)
MaxResults == 10
\* title[:500], abstract[:2000]
TitleLimit == 500
AbstractLimit == 2000
\* the default of calculate_relevance_score, 0.5
DefaultScore == 5

(***************************************************************************)
(* Text                                                                    *)
(***************************************************************************)
UpperChars == <<"A","B","C","D","E","F","G","H","I","J","K","L","M",
                "N","O","P","Q","R","S","T","U","V","W","X","Y","Z">>
LowerChars == <<"a","b","c","d","e","f","g","h","i","j","k","l","m",
                "n","o","p","q","r","s","t","u","v","w","x","y","z">>
DigitChars == <<"0","1","2","3","4","5","6","7","8","9">>

UpperSet == { UpperChars[i] : i \in 1..Len(UpperChars) }
LowerOf == [c \in UpperSet |-> LowerChars[CHOOSE i \in 1..Len(UpperChars) : UpperChars[i] = c]]

\* str.lower() on one character
LowerChar(c) == IF c \in UpperSet THEN LowerOf[c] ELSE c

\* str.lower()
Lower(s) == [i \in 1..Len(s) |-> LowerChar(s[i])]

\* s[:n]
Take(s, n) == IF Len(s) <= n THEN s ELSE SubSeq(s, 1, n)

\* `term in text`
Contains(text, term) ==
    \E i \in 1..(Len(text) - Len(term) + 1) :
        \A j \in 1..Len(term) : text[i + j - 1] = term[j]

\* str(n) for n >= 0
RECURSIVE Digits(_)
Digits(n) ==
    IF n < 10 THEN <<DigitChars[n + 1]>>
    ELSE Digits(n \div 10) \o <<DigitChars[(n % 10) + 1]>>

\* n copies of one character
Repeat(c, n) == [i \in 1..n |-> c]

tAutism == <<"a","u","t","i","s","m">>
tAutistic == <<"a","u","t","i","s","t","i","c">>
tAsd == <<"a","s","d">>
tAutismSpectrumDisorder ==
    <<"a","u","t","i","s","m"," ","s","p","e","c","t","r","u","m"," ",
      "d","i","s","o","r","d","e","r">>
tAsperger == <<"a","s","p","e","r","g","e","r">>
tNeurodevelopmental ==
    <<"n","e","u","r","o","d","e","v","e","l","o","p","m","e","n","t","a","l">>
tNeurodivergent ==
    <<"n","e","u","r","o","d","i","v","e","r","g","e","n","t">>

\* autism_terms of is_autism_related
FilterTerms ==
    { tAutism, tAutistic, tAsd, tAutismSpectrumDisorder,
      tAsperger, tNeurodevelopmental, tNeurodivergent }

\* the weights with one of the filter's terms left out
ScoreTermsFewer ==
    { <<tAutism, 10>>, <<tAutistic, 9>>, <<tAsd, 9>>,
      <<tAutismSpectrumDisorder, 10>>, <<tAsperger, 8>>,
      <<tNeurodevelopmental, 7>> }

\* autism_terms of calculate_relevance_score: term -> weight
ScoreTerms ==
    { <<tAutism, 10>>, <<tAutistic, 9>>, <<tAsd, 9>>,
      <<tAutismSpectrumDisorder, 10>>, <<tAsperger, 8>>,
      <<tNeurodevelopmental, 7>>, <<tNeurodivergent, 7>> }

\* (title + ' ' + abstract).lower()
JoinedText(title, abstract) == Lower(title \o <<" ">> \o abstract)

is_autism_related(title, abstract) ==
    \E term \in FilterTerms : Contains(JoinedText(title, abstract), term)

\* the weights added up
RECURSIVE SetSum(_)
SetSum(S) == IF S = {} THEN 0 ELSE LET x == CHOOSE y \in S : TRUE IN x + SetSum(S \ {x})

SetMax(S) == CHOOSE x \in S : \A y \in S : y <= x

calculate_relevance_score(title, abstract) ==
    LET text == JoinedText(title, abstract)
        score == SetMax({0} \cup { tw[2] : tw \in { x \in ScoreTerms : Contains(text, x[1]) } })
    IN  IF score > 0 THEN score ELSE DefaultScore

\* the filter left out
unfiltered(papers) == papers

filter_papers(papers) ==
    LET Keep(paper) == is_autism_related(paper.title, paper.abstract)
    IN  SelectSeq(papers, Keep)

(***************************************************************************)
(* Values the providers hand back                                          *)
(***************************************************************************)
NoTitle == <<"N","o"," ","t","i","t","l","e"," ","a","v","a","i","l","a","b","l","e">>
NoAbstract == <<"N","o"," ","a","b","s","t","r","a","c","t"," ","a","v","a","i","l","a","b","l","e">>
DateNotAvailable == <<"D","a","t","e"," ","n","o","t"," ","a","v","a","i","l","a","b","l","e">>
YearNotAvailable == <<"Y","e","a","r"," ","n","o","t"," ","a","v","a","i","l","a","b","l","e">>
Unknown == <<"U","n","k","n","o","w","n">>
PubmedUrlPrefix ==
    <<"h","t","t","p","s",":","/","/","p","u","b","m","e","d",".","n","c","b","i",
      ".","n","l","m",".","n","i","h",".","g","o","v","/">>

\* dict.get(key, default); a dict is a function on the keys it holds
Get(d, key, default) == IF key \in DOMAIN d THEN d[key] ELSE default

\* ', '.join(names)
RECURSIVE JoinNames(_)
JoinNames(names) ==
    IF names = <<>> THEN <<>>
    ELSE IF Len(names) = 1 THEN names[1]
    ELSE names[1] \o <<",", " ">> \o JoinNames(Tail(names))

\* zero-padded decimal of width w
ZeroPad(n, w) == LET d == Digits(n) IN Repeat("0", w - Len(d)) \o d

\* datetime.strftime("%Y-%m-%d")
Strftime(date) ==
    ZeroPad(date.y, 4) \o <<"-">> \o ZeroPad(date.m, 2) \o <<"-">> \o ZeroPad(date.d, 2)

\* The abstracts the provider indexes cycle through: three of them are found
\* only after lower(), one holds no topic term.
AbstractTexts ==
    << <<"a","u","t","i","s","m">>,
       <<"d","i","e","t">>,
       <<"A","u","t","i","s","t","i","c">>,
       <<"A","S","D">>,
       <<"A","s","p","e","r","g","e","r">>,
       <<"n","e","u","r","o","d","i","v","e","r","g","e","n","t">> >>
AbstractText(j) == AbstractTexts[((j - 1) % Len(AbstractTexts)) + 1]

\* A title past the stored length whose only topic term lies across the cut.
LongTitle == Repeat("x", TitleLimit - 3) \o tAutism

Queries == 1..NumQueries

\* The i-th result arxiv.Client().results() yields for query q.
ArxivResult(q, i) ==
    [ title     |-> <<"P">> \o Digits(i),
      summary   |-> AbstractText(i),
      pdf_url   |-> <<"a">> \o Digits(i),
      published |-> [y |-> 2020 + q, m |-> i, d |-> 1],
      authors   |-> IF i % 2 = 0 THEN << <<"L","i">>, <<"W","u">> >> ELSE << <<"L","i">> >> ]

\* The i-th MEDLINE record Medline.parse() yields for query q: the titles of the
\* first query are arXiv's in lower case, the later queries' overlap less.
PubmedRecord(q, i) ==
    LET k == i + 8 * (q - 1)
        full == [ TI   |-> <<"p">> \o Digits(k),
                  AB   |-> AbstractText(i + 2),
                  PMID |-> Digits(k),
                  DP   |-> Digits(2020 + q),
                  AU   |-> << <<"N","g">> >> ]
    IN  IF i % 7 = 0 THEN [ f \in {"TI", "PMID"} |-> full[f] ]
        ELSE IF i % 8 = 0 THEN [ f \in {"AB", "PMID", "DP"} |-> full[f] ]
        ELSE full

\* The i-th value next(search_query) yields for query q: a dict with a dict
\* under 'bib', or something else. The first and the fourth result of every
\* second query have the long title: the first has no topic term elsewhere,
\* the fourth has a term of less weight in its abstract.
ScholarResult(q, i) ==
    LET k == i + 16 * (q - 1)
        long == q % 2 = 0 /\ i \in {1, 4}
        bib == [ title    |-> IF long THEN LongTitle ELSE <<"P">> \o Digits(k),
                 abstract |-> IF ~long THEN AbstractText(i + 3)
                              ELSE IF i = 1 THEN AbstractText(2) ELSE AbstractText(6),
                 pub_year |-> Digits(2020 + q),
                 author   |-> IF i % 2 = 0
                              THEN [type |-> "list", items |-> << <<"X","u">> >>]
                              ELSE [type |-> "str", value |-> <<"X","u">>] ]
    IN  IF i % 3 # 0
        THEN [type |-> "dict",
              items |-> [ bib     |-> [type |-> "dict", items |-> bib],
                          pub_url |-> <<"s">> \o Digits(k) ]]
        ELSE IF q % 2 = 1
        THEN [type |-> "dict", items |-> [ pub_url |-> <<"s">> \o Digits(k) ]]
        ELSE [type |-> "str"]

\* Whether handling the i-th result raises (caught at 275-277): the second
\* result of every second query does.
ScholarResultRaises(q, i) == q % 2 = 0 /\ i = 2

(***************************************************************************)
(* Paper (models/paper.py) and the clients' normalisation                  *)
(***************************************************************************)
Paper(title, abstract, url, publication_date, relevance_score, source, authors) ==
    [ title            |-> title,
      abstract         |-> abstract,
      url              |-> url,
      publication_date |-> publication_date,
      relevance_score  |-> relevance_score,
      source           |-> source,
      authors          |-> authors ]

\* research_fetcher.py 137-147
ArxivPaper(result) ==
    Paper(result.title, result.summary, result.pdf_url,
          Strftime(result.published), 
          calculate_relevance_score(result.title, result.summary),
          "arXiv", JoinNames(result.authors))

\* research_fetcher.py 190-200
PubmedPaper(record) ==
    LET title == Get(record, "TI", NoTitle)
        abstract == Get(record, "AB", NoAbstract)
    IN  Paper(title, abstract,
              PubmedUrlPrefix \o Get(record, "PMID", <<>>) \o <<"/">>,
              Get(record, "DP", DateNotAvailable),
              calculate_relevance_score(title, abstract),
              "PubMed",
              IF Get(record, "AU", <<>>) # <<>> THEN record["AU"][1] ELSE Unknown)

\* research_fetcher.py 252-270, for a result that passed the shape checks
ScholarPaper(result) ==
    LET bib == result.items["bib"].items
        title == Get(bib, "title", NoTitle)
        abstract == Get(bib, "abstract", NoAbstract)
        pub_year == Get(bib, "pub_year", YearNotAvailable)
        given == Get(bib, "author", [type |-> "list", items |-> <<Unknown>>])
        authors == IF given.type # "list" THEN <<given.value>> ELSE given.items
    IN  Paper(Take(title, TitleLimit), Take(abstract, AbstractLimit),
              Get(result.items, "pub_url", <<>>),
              pub_year,
              calculate_relevance_score(title, abstract),
              "Google Scholar",
              IF authors # <<>> THEN authors[1] ELSE Unknown)

\* research_fetcher.py 238-249: the shape checks that `continue`
ScholarWellFormed(result) ==
    /\ result.type = "dict"
    /\ "bib" \in DOMAIN result.items
    /\ result.items["bib"].type = "dict"

(***************************************************************************)
(* Outcomes of a call: a returned list, or an exception                    *)
(***************************************************************************)
Returned(value) == [raised |-> FALSE, value |-> value]
Raised == [raised |-> TRUE, value |-> <<>>]

\* the handler left out: the exception leaves the client
ExceptPropagates(outcome) == outcome

\* `except Exception as e: ... return []` around a client's body
ExceptReturnEmpty(outcome) == IF outcome.raised THEN Returned(<<>>) ELSE outcome

\* What a provider does with one request: it yields the first n entries of its
\* index for the query and then ends, or (err) raises after them.
Responses(least, limit, faulty) ==
    [n : least..limit, err : IF faulty THEN BOOLEAN ELSE {FALSE}]

Min(a, b) == IF a <= b THEN a ELSE b

\* a handler that returns what was parsed before the failure
ArxivTryKeepsPartial(q, resp) ==
    Returned(filter_papers([i \in 1..resp.n |-> ArxivPaper(ArxivResult(q, i))]))

\* The body of fetch_arxiv_papers' try: block (124-152)
ArxivTry(q, resp) ==
    IF resp.err THEN Raised
    ELSE Returned(filter_papers([i \in 1..resp.n |-> ArxivPaper(ArxivResult(q, i))]))

\* fetch_arxiv_papers, the lru_cache aside
ArxivCall(q, resp) == ExceptReturnEmpty(ArxivTry(q, resp))

\* The body of fetch_pubmed_papers' try: block (161-205)
PubmedTry(q, resp) ==
    IF resp.n = 0 /\ ~resp.err THEN Returned(<<>>)
    ELSE IF resp.err THEN Raised
    ELSE LET records == [i \in 1..resp.n |-> PubmedRecord(q, i)]
             WithAbstract(record) == "AB" \in DOMAIN record
             kept == SelectSeq(records, WithAbstract)
         IN  Returned(filter_papers([i \in 1..Len(kept) |-> PubmedPaper(kept[i])]))

\* fetch_pubmed_papers, the lru_cache aside
PubmedCall(q, resp) == ExceptReturnEmpty(PubmedTry(q, resp))

(***************************************************************************)
(* functools.lru_cache(maxsize=CACHE_SIZE): the entries, least recently    *)
(* used first                                                              *)
(***************************************************************************)
CacheHas(cache, key) == \E i \in 1..Len(cache) : cache[i].key = key

CacheIndex(cache, key) == CHOOSE i \in 1..Len(cache) : cache[i].key = key

CacheValue(cache, key) == cache[CacheIndex(cache, key)].value

\* a hit that leaves the entries in the order they were stored
CacheTouchNot(cache, key) == cache

\* a hit moves the entry to the most recently used end
CacheTouch(cache, key) ==
    LET i == CacheIndex(cache, key)
    IN  SubSeq(cache, 1, i - 1) \o SubSeq(cache, i + 1, Len(cache)) \o <<cache[i]>>

\* a store that takes no notice of the key being there
CacheStoreAgain(cache, key, value) == Append(cache, [key |-> key, value |-> value])

\* after a miss: a key another caller stored meanwhile is left as it is, a full
\* cache drops its least recently used entry
CacheStore(cache, key, value) ==
    IF CacheHas(cache, key) THEN cache
    ELSE IF Len(cache) >= CACHE_SIZE THEN Tail(cache) \o <<[key |-> key, value |-> value]>>
    ELSE Append(cache, [key |-> key, value |-> value])

(***************************************************************************)
(* fetch_all_papers 311-321                                                *)
(***************************************************************************)
\* sorted(..., key=relevance_score, reverse=True) is stable: one paper is put
\* behind every paper already placed whose score is at least its own
\* no sorting: the paper goes last
InsertLast(sorted, paper) == Append(sorted, paper)

InsertByScore(sorted, paper) ==
    LET ahead == { i \in 1..Len(sorted) : sorted[i].relevance_score >= paper.relevance_score }
        n == Cardinality(ahead)
    IN  SubSeq(sorted, 1, n) \o <<paper>> \o SubSeq(sorted, n + 1, Len(sorted))

RECURSIVE SortedByScore(_)
SortedByScore(papers) ==
    IF papers = <<>> THEN <<>>
    ELSE InsertByScore(SortedByScore(SubSeq(papers, 1, Len(papers) - 1)), papers[Len(papers)])

\* the title compared as it is
title_key_exact(paper) == paper.title

title_key(paper) == Lower(paper.title)

\* the loop over the sorted papers with seen_titles
RECURSIVE UniquePapers(_, _)
UniquePapers(papers, seen_titles) ==
    IF papers = <<>> THEN <<>>
    ELSE IF title_key(Head(papers)) \in seen_titles
         THEN UniquePapers(Tail(papers), seen_titles)
         ELSE <<Head(papers)>>
              \o UniquePapers(Tail(papers), seen_titles \cup {title_key(Head(papers))})

\* the slice left out
Untruncated(unique_papers) == unique_papers

\* unique_papers[:10]
Truncated(unique_papers) == Take(unique_papers, MaxResults)

SortAndDeduplicate(all) == Truncated(UniquePapers(SortedByScore(all), {}))

(***************************************************************************)
(* State                                                                   *)
(***************************************************************************)
\* The futures of fetch_all_papers, in the order they are submitted (297-299)
Dispatch == <<"arXiv", "PubMed", "Google Scholar">>
Sources == { Dispatch[i] : i \in 1..Len(Dispatch) }
Memoized == {"arXiv", "PubMed"}
\* The providers the specification paces
RateLimited == {"PubMed", "Google Scholar"}

VARIABLES
    fpc,            \* fetch_all_papers: "idle", "collecting" (296-309), "done" (returned)
    query,          \* its argument
    calls,          \* calls the application has made so far
    future,         \* per source: the Future's state, outcome, and whether the fetch failed
    done_queue,     \* futures that finished and as_completed has not yielded yet, oldest first
    all_papers,     \* all_papers (292)
    collected,      \* the futures as_completed has yielded
    returned,       \* the list the last call returned
    cache,          \* the lru_cache of fetch_arxiv_papers and of fetch_pubmed_papers
    since_last,     \* time.time() - self._last_request_time, up to the interval
    scholar,        \* fetch_scholar_papers' frame: pc, pending sleep, results consumed, papers
    provider_calls, \* per source and query: requests sent to the provider
    served,         \* per source and query: calls of the client that have returned
    memo,           \* per memoized source and query: what its first call returned, and whether it failed
    since_request,  \* per paced source: seconds since its last request, up to the interval
    min_gap,        \* per paced source: least time seen between the requests of two fetches
    parsed,         \* per source: raw records the provider yielded to the last fetch
    retry,          \* _make_request_with_retry's frame and what it has done so far
    pipeline,       \* generate_answer's frame: the stage to run, the runs ended, the result
    scored,         \* calculate_relevance_score's frame: its arguments and what it returned
    gate,           \* per thread at the rate-limit gate: where it is, its pending sleep, its passes
    leaving,        \* seconds since a thread last left the gate, and the least seen between two
    caller,         \* per thread calling fetch_arxiv_papers: where it is, its query, what it got
    recency,        \* per memoized source: the queries asked of it, the least recently asked first
    pool            \* fetch_all_papers called by several threads: their frames, their tasks, the executor's queue

\* The state of fetch_all_papers and of the three clients
fetch_vars == << fpc, query, calls, future, done_queue, all_papers, collected, returned, cache,
                 since_last, scholar, provider_calls, served, memo, since_request, min_gap,
                 parsed >>

\* What fetch_all_papers and the clients called by it never touch
beside_fetch == << retry, pipeline, scored, gate, leaving, caller, recency, pool >>

\* What the threads calling fetch_arxiv_papers never touch, its cache and the
\* count of its requests aside
beside_race == << retry, pipeline, scored, gate, leaving, recency, pool >>

\* What the threads at the gate never touch, the request time aside
beside_gate == << retry, pipeline, scored, caller, recency, pool >>

\* What calculate_relevance_score never touches
beside_score == << retry, pipeline, gate, leaving, caller, recency, pool >>

\* What generate_answer never touches
beside_pipeline == << retry, scored, gate, leaving, caller, recency, pool >>

\* What _make_request_with_retry never touches, the request time aside
beside_retry == << pipeline, scored, gate, leaving, caller, recency, pool >>

\* What the memoized clients called on their own never touch, their caches aside
beside_cache == << retry, pipeline, scored, gate, leaving, caller, pool >>

\* What the threads calling fetch_all_papers never touch, the clients aside
beside_pool == << retry, pipeline, scored, gate, leaving, caller, recency >>

vars == << fetch_vars, retry, pipeline, scored, gate, leaving, caller, recency, pool >>

NoFuture == [state |-> "none", outcome |-> Returned(<<>>), failed |-> FALSE]
ScholarIdle == [pc |-> "idle", sleep |-> 0, pos |-> 0, papers |-> <<>>]
NoMemo == [seen |-> FALSE, value |-> <<>>, failed |-> FALSE]
NoneParsed == [s \in Sources |-> 0]
\* The threads that call into one ResearchFetcher at the same time
Threads == 1..NumThreads
\* A thread that is not in the gate
GateOutside == [pc |-> "outside", sleep |-> 0, passes |-> 0]
\* No thread has left the gate yet
NoneLeft == [since |-> MinRequestInterval, least |-> MinRequestInterval]
\* No thread has called fetch_all_papers: no task is submitted
PoolIdle == [pc |-> [t \in Threads |-> "idle"],
             task |-> [t \in Threads |-> [k \in 1..Len(Dispatch) |-> "none"]],
             queue |-> <<>>]
\* A thread that has not called fetch_arxiv_papers
CallerIdle == [pc |-> "idle", query |-> 1, calls |-> 0, hit |-> FALSE,
               resp |-> [n |-> 0, err |-> FALSE], result |-> <<>>]
\* calculate_relevance_score has not been called
NotScored == [pc |-> "idle", title |-> <<>>, abstract |-> <<>>, score |-> 0]
\* generate_answer is not running
PipelineIdle == [pc |-> "idle", stage |-> 1, query |-> "", input |-> "", runs |-> <<>>,
                 result |-> "none"]
\* _make_request_with_retry is not running
RetryIdle == [pc |-> "idle", attempt |-> 0, sleep |-> 0, requests |-> 0, outcomes |-> <<>>,
              since_failure |-> 0, gaps |-> <<>>, result |-> "none"]

\* __init__ (24-32): _last_request_time = 0 lies far behind time.time()
Init ==
    /\ fpc = "idle"
    /\ query = 1
    /\ calls = 0
    /\ future = [s \in Sources |-> NoFuture]
    /\ done_queue = <<>>
    /\ all_papers = <<>>
    /\ collected = {}
    /\ returned = <<>>
    /\ cache = [s \in Memoized |-> <<>>]
    /\ since_last = MinRequestInterval
    /\ scholar = ScholarIdle
    /\ provider_calls = [s \in Sources |-> [q \in Queries |-> 0]]
    /\ served = [s \in Sources |-> [q \in Queries |-> 0]]
    /\ memo = [s \in Memoized |-> [q \in Queries |-> NoMemo]]
    /\ since_request = [s \in RateLimited |-> MinRequestInterval]
    /\ min_gap = [s \in RateLimited |-> MinRequestInterval]
    /\ parsed = NoneParsed
    /\ retry = RetryIdle
    /\ pipeline = PipelineIdle
    /\ scored = NotScored
    /\ gate = [t \in Threads |-> GateOutside]
    /\ leaving = NoneLeft
    /\ caller = [t \in Threads |-> CallerIdle]
    /\ recency = [s \in Memoized |-> <<>>]
    /\ pool = PoolIdle

(***************************************************************************)
(* The thread pool                                                         *)
(***************************************************************************)
\* ThreadPoolExecutor(max_workers=MAX_WORKERS): a queued task starts when a
\* worker is free
WorkerFree == Cardinality({ s \in Sources : future[s].state = "running" }) < MAX_WORKERS

\* A request leaves for the provider of source s
RequestSent(s) ==
    /\ provider_calls' = [provider_calls EXCEPT ![s][query] = @ + 1]
    /\ IF s \in RateLimited
       THEN /\ min_gap' = [min_gap EXCEPT ![s] = Min(@, since_request[s])]
            /\ since_request' = [since_request EXCEPT ![s] = 0]
       ELSE UNCHANGED << min_gap, since_request >>

NoRequest == UNCHANGED << provider_calls, min_gap, since_request >>

\* The task of source s ends: its future is set and the waiter of as_completed
\* is told
TaskDone(s, outcome, failed) ==
    /\ future' = [future EXCEPT ![s] = [state |-> "finished", outcome |-> outcome,
                                        failed |-> failed]]
    /\ done_queue' = IF fpc = "collecting" THEN Append(done_queue, s) ELSE done_queue
    /\ served' = [served EXCEPT ![s][query] = @ + 1]

(***************************************************************************)
(* fetch_all_papers                                                        *)
(***************************************************************************)
\* fetch_all_papers(q) is called; 292-299: the three tasks are submitted
Submit(q) ==
    /\ fpc = "idle"
    /\ calls = 0
    /\ calls' = 1
    /\ fpc' = "collecting"
    /\ query' = q
    /\ future' = [s \in Sources |-> [NoFuture EXCEPT !.state = "pending"]]
    /\ all_papers' = <<>>
    /\ collected' = {}
    /\ returned' = <<>>
    /\ parsed' = NoneParsed
    /\ UNCHANGED << done_queue, cache, since_last, scholar, served, memo >>
    /\ UNCHANGED beside_fetch
    /\ NoRequest

\* fetch_all_papers(q) is called again once the call before it has returned
SubmitAgain(q) ==
    /\ fpc = "done"
    /\ calls < MaxCalls
    /\ calls' = calls + 1
    /\ fpc' = "collecting"
    /\ query' = q
    /\ future' = [s \in Sources |-> [NoFuture EXCEPT !.state = "pending"]]
    /\ all_papers' = <<>>
    /\ collected' = {}
    /\ returned' = <<>>
    /\ parsed' = NoneParsed
    /\ UNCHANGED << done_queue, cache, since_last, scholar, served, memo >>
    /\ UNCHANGED beside_fetch
    /\ NoRequest

\* 304-307: future.result() extends all_papers, or raises and is logged
Extended(papers, outcome) == IF outcome.raised THEN papers ELSE papers \o outcome.value

\* an extend that empties the list it reads
ExtendArgumentDrained(papers) == <<>>

\* 305: the list handed to all_papers.extend(papers), after the call
ExtendArgument(papers) == papers

\* The cache of a memoized client after the list it holds for key, which is the
\* list its future returned, was handed to all_papers.extend
CacheAfterExtend(entries, key) ==
    [i \in 1..Len(entries) |->
        IF entries[i].key = key
        THEN [entries[i] EXCEPT !.value = ExtendArgument(@)]
        ELSE entries[i]]

\* 302-307: as_completed yields the futures in the order they finished
Collect ==
    /\ fpc = "collecting"
    /\ done_queue # <<>>
    /\ all_papers' = Extended(all_papers, future[Head(done_queue)].outcome)
    /\ future' = [future EXCEPT ![Head(done_queue)].outcome.value = ExtendArgument(@)]
    /\ cache' = [s \in Memoized |->
                    IF s = Head(done_queue) THEN CacheAfterExtend(cache[s], query)
                    ELSE cache[s]]
    /\ collected' = collected \cup {Head(done_queue)}
    /\ done_queue' = Tail(done_queue)
    /\ UNCHANGED << fpc, query, calls, returned, since_last, scholar,
                    served, memo, parsed >>
    /\ UNCHANGED beside_fetch
    /\ NoRequest

\* the loop left at the first future
SomeYielded == \E s \in Sources : s \in collected

\* as_completed(futures) is exhausted
AllYielded == \A s \in Sources : s \in collected

\* 311-321
Merge ==
    /\ fpc = "collecting"
    /\ AllYielded
    /\ returned' = SortAndDeduplicate(all_papers)
    /\ fpc' = "done"
    /\ UNCHANGED << query, calls, future, done_queue, all_papers, collected, cache, since_last,
                    scholar, served, memo, parsed >>
    /\ UNCHANGED beside_fetch
    /\ NoRequest

(***************************************************************************)
(* The clients called directly                                             *)
(***************************************************************************)
\* fetch_arxiv_papers(q), fetch_pubmed_papers(q) or fetch_scholar_papers(q) is
\* called once the call before it has returned; future[s] stands for its frame
Call(s, q) ==
    /\ fpc = "idle"
    /\ \A t \in Sources : future[t].state \in {"none", "finished"}
    /\ calls < MaxCalls
    /\ calls' = calls + 1
    /\ query' = q
    /\ future' = [t \in Sources |-> IF t = s THEN [NoFuture EXCEPT !.state = "pending"]
                                    ELSE NoFuture]
    /\ parsed' = NoneParsed
    /\ UNCHANGED << fpc, done_queue, all_papers, collected, returned, cache, since_last,
                    scholar, served, memo >>
    /\ UNCHANGED beside_fetch
    /\ NoRequest

(***************************************************************************)
(* fetch_arxiv_papers, fetch_pubmed_papers                                 *)
(***************************************************************************)
\* a lookup that never finds the key
CacheNeverHit(s, q) == FALSE

\* The wrapper's lookup: whether the call is answered from the cache
CacheHit(s, q) == CacheHas(cache[s], q)

\* The lru_cache wrapper is entered: a hit returns the stored list, a miss
\* enters the method, whose request leaves for the provider
CachedStart(s) ==
    /\ s \in Memoized
    /\ future[s].state = "pending"
    /\ WorkerFree
    /\ IF CacheHit(s, query)
       THEN /\ TaskDone(s, Returned(CacheValue(cache[s], query)), FALSE)
            /\ cache' = [cache EXCEPT ![s] = CacheTouch(@, query)]
            /\ NoRequest
       ELSE /\ future' = [future EXCEPT ![s].state = "running"]
            /\ UNCHANGED << cache, done_queue, served >>
            /\ RequestSent(s)
    /\ UNCHANGED << fpc, query, calls, all_papers, collected, returned, since_last,
                    scholar, memo, parsed >>
    /\ UNCHANGED beside_fetch

\* a wrapper that stores nothing after a request that failed
StoresUnlessFailed(outcome, err) == ~outcome.raised /\ ~err

\* Whether the wrapper stores the outcome of the method: it stores every list
\* returned, and sees nothing of a failure the method handled (154-156, 207-209)
StoresReturned(outcome, err) == ~outcome.raised

MethodCall(s, q, resp) == IF s = "arXiv" THEN ArxivCall(q, resp) ELSE PubmedCall(q, resp)

\* The provider answers and the method returns; the wrapper stores what it
\* returned (an exception is not stored)
CachedFinish(s, resp) ==
    /\ s \in Memoized
    /\ future[s].state = "running"
    /\ LET outcome == MethodCall(s, query, resp)
       IN  /\ TaskDone(s, outcome, resp.err)
           /\ cache' = IF StoresReturned(outcome, resp.err)
                       THEN [cache EXCEPT ![s] = CacheStore(@, query, outcome.value)]
                       ELSE cache
           /\ memo' = IF memo[s][query].seen \/ outcome.raised THEN memo
                      ELSE [memo EXCEPT ![s][query] = [seen |-> TRUE, value |-> outcome.value,
                                                       failed |-> resp.err]]
    /\ parsed' = [parsed EXCEPT ![s] = resp.n]
    /\ UNCHANGED << fpc, query, calls, all_papers, collected, returned, since_last, scholar >>
    /\ UNCHANGED beside_fetch
    /\ NoRequest

(***************************************************************************)
(* fetch_scholar_papers                                                    *)
(***************************************************************************)
\* 218-221: the time since the last request is read, and the rest of the
\* interval is slept
GateSleep(since) == IF since < MinRequestInterval THEN MinRequestInterval - since ELSE 0

ScholarStart ==
    /\ future["Google Scholar"].state = "pending"
    /\ WorkerFree
    /\ future' = [future EXCEPT !["Google Scholar"].state = "running"]
    /\ scholar' = [ScholarIdle EXCEPT !.pc = "gate", !.sleep = GateSleep(since_last)]
    /\ UNCHANGED << fpc, query, calls, done_queue, all_papers, collected, returned, cache,
                    since_last, served, memo, parsed >>
    /\ UNCHANGED beside_fetch
    /\ NoRequest

\* 283-288: the papers are filtered and returned
ScholarReturn(papers) == ExceptReturnEmpty(Returned(filter_papers(papers)))

\* 222-227: the request time is stored and scholarly.search_pubs is called;
\* what it raises is logged at 279-280
ScholarSearch(err) ==
    /\ scholar.pc = "gate"
    /\ scholar.sleep = 0
    /\ since_last' = 0
    /\ RequestSent("Google Scholar")
    /\ IF err
       THEN /\ TaskDone("Google Scholar", ScholarReturn(<<>>), TRUE)
            /\ scholar' = ScholarIdle
       ELSE /\ scholar' = [scholar EXCEPT !.pc = "loop"]
            /\ UNCHANGED << future, done_queue, served >>
    /\ UNCHANGED << fpc, query, calls, all_papers, collected, returned, cache, memo, parsed >>
    /\ UNCHANGED beside_fetch

\* a turn that loses the papers gathered so far at a result it cannot handle
ScholarTurnAborts(papers, q, i) ==
    IF ~ScholarResultRaises(q, i) /\ ScholarWellFormed(ScholarResult(q, i))
    THEN Append(papers, ScholarPaper(ScholarResult(q, i)))
    ELSE <<>>

\* 235-277: what one turn of the loop leaves in papers
ScholarTurn(papers, q, i) ==
    IF ~ScholarResultRaises(q, i) /\ ScholarWellFormed(ScholarResult(q, i))
    THEN Append(papers, ScholarPaper(ScholarResult(q, i)))
    ELSE papers

\* 229-277, one turn of the loop once its sleep is over: next() yields a
\* result ("item") or raises StopIteration ("stop"), at which the loop is
\* left (272-273); the turn for i is the scholar.pos + 1-st
ScholarNext(kind, least, limit) ==
    /\ scholar.pc = "loop"
    /\ scholar.sleep = 0
    /\ kind = "item" => scholar.pos < limit
    /\ kind = "stop" => scholar.pos >= least
    /\ LET papers == IF kind = "item"
                     THEN ScholarTurn(scholar.papers, query, scholar.pos + 1)
                     ELSE scholar.papers
           last == kind = "stop" \/ scholar.pos + 1 >= SCHOLAR_MAX_PAPERS
       IN  IF last
           THEN /\ TaskDone("Google Scholar", ScholarReturn(papers), FALSE)
                /\ scholar' = ScholarIdle
           ELSE /\ scholar' = [scholar EXCEPT !.pos = @ + 1, !.papers = papers,
                                              !.sleep = MinRequestInterval]
                /\ UNCHANGED << future, done_queue, served >>
    /\ parsed' = [parsed EXCEPT !["Google Scholar"] =
                      IF kind = "item" THEN scholar.pos + 1 ELSE scholar.pos]
    /\ UNCHANGED << fpc, query, calls, all_papers, collected, returned, cache,
                    since_last, memo >>
    /\ UNCHANGED beside_fetch
    /\ NoRequest

(***************************************************************************)
(* Time                                                                    *)
(***************************************************************************)
\* One second passes: sleeps run down, the times since a request grow
Tick ==
    /\ \/ scholar.sleep > 0
       \/ since_last < MinRequestInterval
       \/ \E s \in RateLimited : since_request[s] < MinRequestInterval
    /\ scholar' = [scholar EXCEPT !.sleep = IF @ > 0 THEN @ - 1 ELSE 0]
    /\ since_last' = Min(since_last + 1, MinRequestInterval)
    /\ since_request' = [s \in RateLimited |-> Min(since_request[s] + 1, MinRequestInterval)]
    /\ UNCHANGED << fpc, query, calls, future, done_queue, all_papers, collected, returned,
                    cache, provider_calls, served, memo, min_gap, parsed >>
    /\ UNCHANGED beside_fetch

(***************************************************************************)
(* _make_request_with_retry 61-78                                          *)
(***************************************************************************)
\* range(3) at 63
RetryAttempts == 3

\* What session.get and raise_for_status (66-67) end in: a response, an
\* HTTPError of status 429, another HTTPError, or another RequestException
RequestOutcomes == {"ok", "429", "http_error", "connection_error"}

\* a wait that does not grow with the attempt
wait_time_flat(attempt) == MinRequestInterval * 2

\* 71
wait_time(attempt) == (attempt + 1) * MinRequestInterval * 2

\* The longest wait_time, up to which the time since a failure is counted
LongestWait == wait_time(RetryAttempts - 1)

\* The call begins: attempt 0 enters _wait_for_rate_limit (55-58)
RetryCall ==
    /\ retry = RetryIdle
    /\ retry' = [retry EXCEPT !.pc = "gate", !.sleep = GateSleep(since_last)]
    /\ UNCHANGED << fetch_vars, beside_retry >>

\* The attempt, or the loop after the last attempt, is over
RetryAfter(r, left) ==
    IF left \/ r.attempt + 1 >= RetryAttempts
    THEN [r EXCEPT !.pc = "done"]
    ELSE [r EXCEPT !.pc = "gate", !.attempt = @ + 1]

\* 59, 66-77: the request time is stored, the request is sent and ends in
\* outcome; a response is returned, a 429 is waited for, another failure goes
\* on to the next attempt, which enters _wait_for_rate_limit at once, or, at
\* the last attempt, returns None
RetryRequest(outcome) ==
    /\ retry.pc = "gate"
    /\ retry.sleep = 0
    /\ since_last' = 0
    /\ LET sent == [retry EXCEPT !.requests = @ + 1,
                                 !.outcomes = Append(@, outcome),
                                 !.gaps = IF retry.attempt > 0
                                          THEN Append(@, retry.since_failure) ELSE @,
                                 !.since_failure = 0]
       IN  retry' =
             IF outcome = "ok"
             THEN [RetryAfter(sent, TRUE) EXCEPT !.result = "response"]
             ELSE IF outcome = "429"
             THEN [sent EXCEPT !.pc = "backoff", !.sleep = wait_time(retry.attempt)]
             ELSE LET after == RetryAfter(sent, FALSE)
                  IN  IF after.pc = "done" THEN [after EXCEPT !.result = "None"]
                      ELSE [after EXCEPT !.sleep = GateSleep(0)]
    /\ UNCHANGED << fpc, query, calls, future, done_queue, all_papers, collected, returned,
                    cache, scholar, provider_calls, served, memo, since_request, min_gap,
                    parsed >>
    /\ UNCHANGED beside_retry

\* 73-74, 78: the wait is over; the loop goes on to the next attempt or, after
\* the last one, None is returned
RetryResume ==
    /\ retry.pc = "backoff"
    /\ retry.sleep = 0
    /\ LET after == RetryAfter(retry, FALSE)
       IN  retry' = IF after.pc = "done" THEN [after EXCEPT !.result = "None"]
                    ELSE [after EXCEPT !.sleep = GateSleep(since_last)]
    /\ UNCHANGED << fetch_vars, beside_retry >>

\* One second passes while _make_request_with_retry runs
RetryTick ==
    /\ retry.pc \in {"gate", "backoff"}
    /\ \/ retry.sleep > 0
       \/ since_last < MinRequestInterval
       \/ retry.since_failure < LongestWait
    /\ retry' = [retry EXCEPT !.sleep = IF @ > 0 THEN @ - 1 ELSE 0,
                              !.since_failure = Min(@ + 1, LongestWait)]
    /\ since_last' = Min(since_last + 1, MinRequestInterval)
    /\ UNCHANGED << fpc, query, calls, future, done_queue, all_papers, collected, returned,
                    cache, scholar, provider_calls, served, memo, since_request, min_gap,
                    parsed >>
    /\ UNCHANGED beside_retry

(***************************************************************************)
(* ModelHandler.generate_answer (model_handler.py 105-128)                 *)
(***************************************************************************)
\* 107-113: the agents, in the order they are run
Stages == <<"translator", "researcher", "summarizer", "presenter">>

\* 126-128, its message (accents and surrounding blanks aside)
FallbackResponse ==
    "Peco descula, mas encontrei um erro ao gerar a resposta. Tente novamente ou refaca a sua pergunta."

\* The questions asked, and what an agent's run may hold as content
Questions == {"pergunta", "question"}
Contents == {"", "texto", "resumo"}

\* What one run of an agent ends in: an exception or a response with content
RunOutcomes == [raised : BOOLEAN, content : Contents]

\* a test that takes no content for empty
never_empty(content) == FALSE

\* 116: not presentation.content
not_content(content) == content = ""

\* generate_answer(q) is called
PipelineCall(q) ==
    /\ pipeline = PipelineIdle
    /\ pipeline' = [PipelineIdle EXCEPT !.pc = "running", !.query = q, !.input = q]
    /\ UNCHANGED << fetch_vars, beside_pipeline >>

\* 107-121: the agent of the stage runs on the content of the stage before it
\* (the translator on the query); an exception is caught and the fallback
\* returned (119-121); after the presenter its content is returned, or the
\* fallback when there is none (116-118)
StageRun(outcome) ==
    /\ pipeline.pc = "running"
    /\ LET run == [stage |-> Stages[pipeline.stage], input |-> pipeline.input,
                   raised |-> outcome.raised,
                   content |-> IF outcome.raised THEN "" ELSE outcome.content]
           ended == [pipeline EXCEPT !.runs = Append(@, run)]
       IN  pipeline' =
             IF outcome.raised
             THEN [ended EXCEPT !.pc = "done", !.result = FallbackResponse]
             ELSE IF pipeline.stage < Len(Stages)
             THEN [ended EXCEPT !.stage = @ + 1, !.input = outcome.content]
             ELSE [ended EXCEPT !.pc = "done",
                                !.result = IF not_content(outcome.content)
                                           THEN FallbackResponse ELSE outcome.content]
    /\ UNCHANGED << fetch_vars, beside_pipeline >>

(***************************************************************************)
(* calculate_relevance_score called on its own                             *)
(***************************************************************************)
\* The phrases the texts scored are made of: "Autism Spectrum Disorder study",
\* "Neurodivergent research", "unrelated topic", "ASD", "Asperger",
\* "autistic", "neurodevelopmental", "sensory processing" and the empty string
Phrases ==
    { <<"A","u","t","i","s","m"," ","S","p","e","c","t","r","u","m"," ","D","i","s","o","r","d","e","r"," ","s","t","u","d","y">>,
      <<"N","e","u","r","o","d","i","v","e","r","g","e","n","t"," ","r","e","s","e","a","r","c","h">>,
      <<"u","n","r","e","l","a","t","e","d"," ","t","o","p","i","c">>,
      <<"A","S","D">>,
      <<"A","s","p","e","r","g","e","r">>,
      <<"a","u","t","i","s","t","i","c">>,
      <<"n","e","u","r","o","d","e","v","e","l","o","p","m","e","n","t","a","l">>,
      <<"s","e","n","s","o","r","y"," ","p","r","o","c","e","s","s","i","n","g">>,
      <<>> }

\* The texts made of at most n phrases, a blank between them
RECURSIVE PhraseTexts(_)
PhraseTexts(n) ==
    IF n <= 1 THEN Phrases
    ELSE Phrases \cup { t \o <<" ">> \o ph : t \in PhraseTexts(n - 1), ph \in Phrases }

\* calculate_relevance_score(title, abstract) is called
ScoreCall(title, abstract) ==
    /\ scored.pc = "idle"
    /\ scored' = [scored EXCEPT !.pc = "called", !.title = title, !.abstract = abstract]
    /\ UNCHANGED << fetch_vars, beside_score >>

\* 102-119: it returns
ScoreReturn ==
    /\ scored.pc = "called"
    /\ scored' = [scored EXCEPT !.pc = "returned",
                                !.score = calculate_relevance_score(scored.title, scored.abstract)]
    /\ UNCHANGED << fetch_vars, beside_score >>

(***************************************************************************)
(* The rate-limit gate (55-59, 218-222) entered by several threads         *)
(***************************************************************************)
\* 55-58, 218-221: thread t reads the clock and _last_request_time and goes
\* to sleep for what is left of the interval
GateEnter(t) ==
    /\ gate[t].pc = "outside"
    /\ gate[t].passes < MaxCalls
    /\ gate' = [gate EXCEPT ![t] = [@ EXCEPT !.pc = "inside", !.sleep = GateSleep(since_last)]]
    /\ UNCHANGED << fetch_vars, leaving, beside_gate >>

\* 59, 222: its sleep over, thread t stores the time in _last_request_time,
\* leaves the gate and sends its request
GateLeave(t) ==
    /\ gate[t].pc = "inside"
    /\ gate[t].sleep = 0
    /\ since_last' = 0
    /\ gate' = [gate EXCEPT ![t] = [@ EXCEPT !.pc = "outside", !.passes = @ + 1]]
    /\ leaving' = [since |-> 0,
                   least |-> IF \E u \in Threads : gate[u].passes > 0
                             THEN Min(leaving.least, leaving.since) ELSE leaving.least]
    /\ UNCHANGED << fpc, query, calls, future, done_queue, all_papers, collected, returned,
                    cache, scholar, provider_calls, served, memo, since_request, min_gap,
                    parsed >>
    /\ UNCHANGED beside_gate

\* One second passes for the threads at the gate
GateTick ==
    /\ \/ \E t \in Threads : gate[t].sleep > 0
       \/ since_last < MinRequestInterval
       \/ leaving.since < MinRequestInterval
    /\ gate' = [t \in Threads |-> [gate[t] EXCEPT !.sleep = IF @ > 0 THEN @ - 1 ELSE 0]]
    /\ since_last' = Min(since_last + 1, MinRequestInterval)
    /\ leaving' = [leaving EXCEPT !.since = Min(@ + 1, MinRequestInterval)]
    /\ UNCHANGED << fpc, query, calls, future, done_queue, all_papers, collected, returned,
                    cache, scholar, provider_calls, served, memo, since_request, min_gap,
                    parsed >>
    /\ UNCHANGED beside_gate

(***************************************************************************)
(* fetch_arxiv_papers called by several threads                            *)
(***************************************************************************)
\* Calls of fetch_arxiv_papers in one behaviour: one for every thread, and one more
RaceCalls == NumThreads + 1

\* The calls the threads of T have made
RECURSIVE CallsMade(_)
CallsMade(T) ==
    IF T = {} THEN 0
    ELSE LET t == CHOOSE u \in T : TRUE IN caller[t].calls + CallsMade(T \ {t})

\* Thread t calls fetch_arxiv_papers(q): the wrapper looks the query up; a hit
\* returns the stored list, a miss enters the method, whose request leaves
RaceCall(t, q) ==
    /\ caller[t].pc \in {"idle", "returned"}
    /\ caller[t].calls < MaxCalls
    /\ CallsMade(Threads) < RaceCalls
    /\ IF CacheHas(cache["arXiv"], q)
       THEN /\ caller' = [caller EXCEPT ![t] =
                            [@ EXCEPT !.pc = "returned", !.query = q, !.calls = @ + 1,
                                      !.hit = TRUE,
                                      !.result = CacheValue(cache["arXiv"], q)]]
            /\ cache' = [cache EXCEPT !["arXiv"] = CacheTouch(@, q)]
            /\ UNCHANGED provider_calls
       ELSE /\ caller' = [caller EXCEPT ![t] =
                            [@ EXCEPT !.pc = "fetching", !.query = q, !.calls = @ + 1,
                                      !.hit = FALSE, !.result = <<>>]]
            /\ provider_calls' = [provider_calls EXCEPT !["arXiv"][q] = @ + 1]
            /\ UNCHANGED cache
    /\ UNCHANGED << fpc, query, calls, future, done_queue, all_papers, collected, returned,
                    since_last, scholar, served, memo, since_request, min_gap, parsed >>
    /\ UNCHANGED beside_race

\* The provider answers thread t and the method returns; the wrapper stores
\* the list unless the query has been stored meanwhile, and returns it
RaceReturn(t, resp) ==
    /\ caller[t].pc = "fetching"
    /\ LET outcome == ArxivCall(caller[t].query, resp)
       IN  /\ caller' = [caller EXCEPT ![t] =
                            [@ EXCEPT !.pc = "returned", !.resp = resp,
                                      !.result = outcome.value]]
           /\ cache' = [cache EXCEPT !["arXiv"] = CacheStore(@, caller[t].query, outcome.value)]
    /\ UNCHANGED << fpc, query, calls, future, done_queue, all_papers, collected, returned,
                    since_last, scholar, provider_calls, served, memo, since_request, min_gap,
                    parsed >>
    /\ UNCHANGED beside_race

(***************************************************************************)
(* fetch_arxiv_papers, fetch_pubmed_papers called with many queries        *)
(***************************************************************************)
\* The queries asked of a memoized client: more of them than its cache holds
CacheQueries == 1..(CACHE_SIZE + CacheSlack)

\* The queries that are asked again after later ones
Repeated == {1}

\* The provider's answer to a query asked on its own: its first results
FirstResults == [n |-> MaxRecords, err |-> FALSE]

\* seq without the element q
Without(seq, q) == LET Other(x) == x # q IN SelectSeq(seq, Other)

\* One call of the decorated method s (121-122, 158-159) with query q, the
\* next new query or one asked before: a hit returns the stored list and
\* counts as a use, a miss runs the method and stores what it returns.
MemoCall(s, q) ==
    /\ s \in Memoized
    /\ \A o \in Memoized \ {s} : cache[o] = <<>>
    /\ \/ q = Len(recency[s]) + 1
       \/ q \in Repeated /\ q <= Len(recency[s])
    /\ cache' = [cache EXCEPT ![s] =
                    IF CacheHas(@, q) THEN CacheTouch(@, q)
                    ELSE CacheStore(@, q, MethodCall(s, q, FirstResults).value)]
    /\ recency' = [recency EXCEPT ![s] = Append(Without(@, q), q)]
    /\ UNCHANGED << fpc, query, calls, future, done_queue, all_papers, collected, returned,
                    since_last, scholar, provider_calls, served, memo, since_request, min_gap,
                    parsed >>
    /\ UNCHANGED beside_cache

(***************************************************************************)
(* fetch_all_papers called by several threads on one ResearchFetcher       *)
(***************************************************************************)
\* The tasks a worker of the executor is running
PoolRunning ==
    { tk \in Threads \X (1..Len(Dispatch)) : pool.task[tk[1]][tk[2]] = "running" }

\* a worker that is gone with its first task
WorkerKept(state) == "running"

\* What becomes of a task whose source call has ended: its future is set and
\* its worker goes back to the queue
WorkerReleased(state) == "finished"

\* Thread t calls fetch_all_papers (290-295), once its call before has returned
PoolCall(t) ==
    /\ pool.pc[t] \in {"idle", "done"}
    /\ pool' = [pool EXCEPT !.pc[t] = "submitting",
                            !.task[t] = [k \in 1..Len(Dispatch) |-> "none"]]
    /\ UNCHANGED fetch_vars
    /\ UNCHANGED beside_pool

\* 297-299: thread t submits its next task, which joins the executor's queue;
\* after the third it waits in as_completed
PoolSubmit(t) ==
    /\ pool.pc[t] = "submitting"
    /\ LET k == CHOOSE j \in 1..Len(Dispatch) :
                   /\ pool.task[t][j] = "none"
                   /\ \A i \in 1..(j - 1) : pool.task[t][i] # "none"
       IN  pool' = [pool EXCEPT !.task[t][k] = "queued",
                                !.queue = Append(@, << t, k >>),
                                !.pc[t] = IF k = Len(Dispatch) THEN "collecting" ELSE @]
    /\ UNCHANGED fetch_vars
    /\ UNCHANGED beside_pool

\* ThreadPoolExecutor(max_workers=MAX_WORKERS) (32): a free worker takes the
\* task at the head of the queue
PoolStart ==
    /\ pool.queue # <<>>
    /\ Cardinality(PoolRunning) < MAX_WORKERS
    /\ pool' = [pool EXCEPT !.task[Head(pool.queue)[1]][Head(pool.queue)[2]] = "running",
                            !.queue = Tail(@)]
    /\ UNCHANGED fetch_vars
    /\ UNCHANGED beside_pool

\* The source call of task k of thread t ends, with a list or an exception
PoolFinish(t, k) ==
    /\ << t, k >> \in PoolRunning
    /\ pool' = [pool EXCEPT !.task[t][k] = WorkerReleased(@)]
    /\ UNCHANGED fetch_vars
    /\ UNCHANGED beside_pool

\* 302-321: as_completed has yielded thread t each of its futures, which it
\* does once the future is done, and the call returns
PoolReturn(t) ==
    /\ pool.pc[t] = "collecting"
    /\ \A k \in 1..Len(Dispatch) : pool.task[t][k] = "finished"
    /\ pool' = [pool EXCEPT !.pc[t] = "done"]
    /\ UNCHANGED fetch_vars
    /\ UNCHANGED beside_pool

(***************************************************************************)
(* Specifications                                                          *)
(***************************************************************************)
PageLimit(s) ==
    IF s = "arXiv" THEN ARXIV_MAX_PAPERS
    ELSE IF s = "PubMed" THEN PUBMED_MAX_PAPERS
    ELSE SCHOLAR_MAX_PAPERS

\* One call of fetch_all_papers; providers that hold at most MaxRecords
\* results for a query and may fail.
Next ==
    \/ \E q \in Queries : Submit(q)
    \/ \E s \in Memoized : CachedStart(s)
    \/ \E s \in Memoized : \E resp \in Responses(0, Min(MaxRecords, PageLimit(s)), TRUE) :
          CachedFinish(s, resp)
    \/ ScholarStart
    \/ \E err \in BOOLEAN : ScholarSearch(err)
    \/ \E kind \in {"item", "stop"} : ScholarNext(kind, 0, MaxRecords)
    \/ Collect
    \/ Merge
    \/ Tick

Spec == Init /\ [][Next]_vars

\* One call of fetch_all_papers; providers that answer with a full page, or up
\* to PageSlack short of it, and do not fail.
NextPages ==
    \/ \E q \in Queries : Submit(q)
    \/ \E s \in Memoized : CachedStart(s)
    \/ \E s \in Memoized : \E resp \in Responses(PageLimit(s) - PageSlack, PageLimit(s), FALSE) :
          CachedFinish(s, resp)
    \/ ScholarStart
    \/ ScholarSearch(FALSE)
    \/ \E kind \in {"item", "stop"} :
          ScholarNext(kind, SCHOLAR_MAX_PAPERS - PageSlack, SCHOLAR_MAX_PAPERS + 1)
    \/ Collect
    \/ Merge
    \/ Tick

SpecPages == Init /\ [][NextPages]_vars

\* MaxCalls calls of the clients, one after the other, at any times; providers
\* as under Spec.
NextClients ==
    \/ \E s \in Sources : \E q \in Queries : Call(s, q)
    \/ \E s \in Memoized : CachedStart(s)
    \/ \E s \in Memoized : \E resp \in Responses(0, Min(MaxRecords, PageLimit(s)), TRUE) :
          CachedFinish(s, resp)
    \/ ScholarStart
    \/ \E err \in BOOLEAN : ScholarSearch(err)
    \/ \E kind \in {"item", "stop"} : ScholarNext(kind, 0, MaxRecords)
    \/ Tick

SpecClients == Init /\ [][NextClients]_vars

\* One call of _make_request_with_retry, whose requests end in any outcomes.
\* The thread is scheduled, its sleeps end and each request ends (timeout=10).
NextRetry ==
    \/ RetryCall
    \/ \E outcome \in RequestOutcomes : RetryRequest(outcome)
    \/ RetryResume
    \/ RetryTick

SpecRetry == Init /\ [][NextRetry]_vars /\ WF_vars(NextRetry)

\* One call of generate_answer, whose agents raise or answer anything.
NextPipeline ==
    \/ \E q \in Questions : PipelineCall(q)
    \/ \E outcome \in RunOutcomes : StageRun(outcome)

SpecPipeline == Init /\ [][NextPipeline]_vars

\* One call of calculate_relevance_score on a title of one phrase and an
\* abstract of at most MaxPhrases phrases.
NextScore ==
    \/ \E title \in Phrases : \E abstract \in PhraseTexts(MaxPhrases) : ScoreCall(title, abstract)
    \/ ScoreReturn

SpecScore == Init /\ [][NextScore]_vars

\* MaxCalls calls of fetch_all_papers, one after the other; providers that
\* hold MaxRecords results for a query, of which Google Scholar's may fail.
NextRepeat ==
    \/ \E q \in Queries : Submit(q)
    \/ \E q \in Queries : SubmitAgain(q)
    \/ \E s \in Memoized : CachedStart(s)
    \/ \E s \in Memoized : \E resp \in Responses(MaxRecords, MaxRecords, FALSE) :
          CachedFinish(s, resp)
    \/ ScholarStart
    \/ \E err \in BOOLEAN : ScholarSearch(err)
    \/ \E kind \in {"item", "stop"} : ScholarNext(kind, MaxRecords, MaxRecords)
    \/ Collect
    \/ Merge
    \/ Tick

SpecRepeat == Init /\ [][NextRepeat]_vars

\* NumThreads threads, each passing the gate of one ResearchFetcher up to
\* MaxCalls times, at any times.
NextGate ==
    \/ \E t \in Threads : GateEnter(t)
    \/ \E t \in Threads : GateLeave(t)
    \/ GateTick

SpecGate == Init /\ [][NextGate]_vars

\* NumThreads threads, each calling fetch_arxiv_papers up to MaxCalls times,
\* at any times; a provider as under Spec.
NextRace ==
    \/ \E t \in Threads : \E q \in Queries : RaceCall(t, q)
    \/ \E t \in Threads :
          \E resp \in Responses(MaxRecords, MaxRecords, TRUE) : RaceReturn(t, resp)

SpecRace == Init /\ [][NextRace]_vars

\* The memoized clients called one after the other with more distinct queries
\* than a cache holds, the first query being asked again at any time.
NextCache ==
    \E s \in Memoized, q \in CacheQueries : MemoCall(s, q)

SpecCache == Init /\ [][NextCache]_vars

\* Threads that call fetch_all_papers again and again on one ResearchFetcher.
\* A thread that is in a call goes on, a free worker takes the next task, and
\* every source call ends; no thread has to call.
NextPool ==
    \/ \E t \in Threads : PoolCall(t)
    \/ \E t \in Threads : PoolSubmit(t)
    \/ PoolStart
    \/ \E t \in Threads : \E k \in 1..Len(Dispatch) : PoolFinish(t, k)
    \/ \E t \in Threads : PoolReturn(t)

PoolFairness ==
    /\ WF_vars(PoolStart)
    /\ \A t \in Threads :
          /\ WF_vars(PoolSubmit(t))
          /\ WF_vars(PoolReturn(t))
          /\ \A k \in 1..Len(Dispatch) : WF_vars(PoolFinish(t, k))

SpecPool == Init /\ [][NextPool]_vars /\ PoolFairness

(***************************************************************************)
(* Properties                                                              *)
(***************************************************************************)
Range(seq) == { seq[i] : i \in 1..Len(seq) }

\* The papers the three clients handed to fetch_all_papers
Candidates == UNION { Range(future[s].outcome.value) : s \in Sources }

InReturned(paper) == paper \in Range(returned)

SameTitle(p, r) == Lower(p.title) = Lower(r.title)

DistinctTitles(papers) ==
    \A i, j \in 1..Len(papers) : SameTitle(papers[i], papers[j]) => i = j

NonIncreasing(papers) ==
    \A i, j \in 1..Len(papers) :
        i < j => papers[i].relevance_score >= papers[j].relevance_score

\* The result is full of papers that score at least n
FullAtOrAbove(n) ==
    /\ Len(returned) = MaxResults
    /\ \A i \in 1..Len(returned) : returned[i].relevance_score >= n

\* C1 as stated: the result holds no two papers of one lower-cased title, and
\* of two candidates with one lower-cased title and different scores it holds
\* exactly one, the higher-scoring one.
C1_ExactlyOneOfEachPair ==
    fpc = "done" =>
        /\ DistinctTitles(returned)
        /\ \A p, r \in Candidates :
              SameTitle(p, r) /\ p.relevance_score > r.relevance_score
                  => InReturned(p) /\ ~InReturned(r)

\* C1 as amended: the result holds no two papers of one lower-cased title; of
\* two candidates with one lower-cased title and different scores the lower
\* one is never in the result; a paper of that title in the result scores the
\* most of all candidates of the title; and the result holds none of the title
\* only when it is full of papers scoring at least as much.
C1_HighestOfEachTitle ==
    fpc = "done" =>
        /\ DistinctTitles(returned)
        /\ \A p \in Candidates :
              LET group == { r \in Candidates : SameTitle(p, r) }
                  kept == { r \in group : InReturned(r) }
              IN  /\ Cardinality(kept) <= 1
                  /\ \A r \in kept : \A o \in group : r.relevance_score >= o.relevance_score
                  /\ kept = {} => FullAtOrAbove(p.relevance_score)

\* A pair of one title and different scores whose higher paper is kept, and
\* another such pair of which neither is kept, a third paper of the title
\* scoring more than both.
C1_Witness ==
    /\ fpc = "done"
    /\ \E p, r \in Candidates :
          /\ SameTitle(p, r) /\ p.relevance_score > r.relevance_score
          /\ p.source # r.source /\ p.title # r.title
          /\ InReturned(p) /\ ~InReturned(r)
    /\ \E p, r, o \in Candidates :
          /\ SameTitle(p, r) /\ p.relevance_score > r.relevance_score
          /\ SameTitle(o, p) /\ o.relevance_score > p.relevance_score
          /\ ~InReturned(p) /\ ~InReturned(r) /\ InReturned(o)

\* C2: papers of equal score, and of equal title and score, come out in the
\* order of dispatch (arXiv, PubMed, Google Scholar) whatever the order in
\* which the tasks finish: the result is the merge of the three lists
\* concatenated in dispatch order.
C2_TiesInDispatchOrder ==
    fpc = "done" =>
        returned = SortAndDeduplicate(future[Dispatch[1]].outcome.value
                                      \o future[Dispatch[2]].outcome.value
                                      \o future[Dispatch[3]].outcome.value)

\* C3: the list fetch_all_papers returns has at most 10 entries.
C3_AtMostTen == Len(returned) <= 10

\* More than ten distinct titles came in, ten papers went out.
C3_Witness ==
    /\ fpc = "done"
    /\ Cardinality({ Lower(p.title) : p \in Candidates }) > 10
    /\ Len(returned) = 10

\* C4: the result is in non-increasing order of score, holds candidates only,
\* and no candidate left out, unless a paper of its title is in the result,
\* scores more than a paper in the result.
C4_TopOfSorted ==
    fpc = "done" =>
        /\ NonIncreasing(returned)
        /\ Range(returned) \subseteq Candidates
        /\ \A c \in Candidates :
              (\A i \in 1..Len(returned) : ~SameTitle(c, returned[i]))
                  => \A i \in 1..Len(returned) :
                        returned[i].relevance_score >= c.relevance_score

\* The cut removed a title, the result holds several scores, and the first
\* paper collected is not one of the best.
C4_Witness ==
    /\ fpc = "done"
    /\ \E c \in Candidates : \A i \in 1..Len(returned) : ~SameTitle(c, returned[i])
    /\ Len(returned) = 10
    /\ returned[1].relevance_score > returned[10].relevance_score
    /\ all_papers[1].relevance_score < returned[1].relevance_score

\* The sources whose fetch did not fail, and their papers
Succeeded == { s \in Sources : ~future[s].failed }
Pool == UNION { Range(future[s].outcome.value) : s \in Succeeded }

\* C5: whatever sources fail, fetch_all_papers returns, with no exception
\* left in a future, the sorted, deduplicated, truncated merge of the papers
\* of the sources that succeeded: only their papers, every one of them unless
\* a paper of its title scoring at least as much is there or the result is
\* full of papers scoring at least as much; the empty list when all failed.
C5_FailureIsolation ==
    fpc = "done" =>
        /\ \A s \in Sources : ~future[s].outcome.raised
        /\ Succeeded = {} => returned = <<>>
        /\ Range(returned) \subseteq Pool
        /\ NonIncreasing(returned)
        /\ DistinctTitles(returned)
        /\ \A p \in Pool :
              \/ InReturned(p)
              \/ \E i \in 1..Len(returned) :
                    SameTitle(p, returned[i])
                    /\ returned[i].relevance_score >= p.relevance_score
              \/ FullAtOrAbove(p.relevance_score)

\* Two of the three sources failed and the papers of the third came back.
C5_Witness ==
    /\ fpc = "done"
    /\ Cardinality(Succeeded) = 1
    /\ returned # <<>>

\* C6: every paper a client returns, from the provider or from its cache, and
\* every paper fetch_all_papers returns, passes is_autism_related on the title
\* and abstract it stores.
C6_OnlyRelatedPapers ==
    \A paper \in Candidates \cup Range(returned) :
        is_autism_related(paper.title, paper.abstract)

\* A call answered from the cache returned papers.
C6_Witness ==
    \E s \in Memoized :
        /\ future[s].state = "finished"
        /\ served[s][query] = 2
        /\ provider_calls[s][query] = 1
        /\ future[s].outcome.value # <<>>

\* C7: for PubMed and for Google Scholar, the requests of two consecutive
\* fetches leave no less than the minimum interval apart.
C7_RequestsSpaced ==
    \A s \in RateLimited : min_gap[s] >= MinRequestInterval

\* C8: the papers are sorted and deduplicated only after each of the three
\* tasks has finished and been collected.
C8_MergeAfterAll ==
    fpc = "done" =>
        \A s \in Sources : future[s].state = "finished" /\ s \in collected

\* The call returned after the tasks finished in another order than they
\* were submitted.
C8_Witness ==
    /\ fpc = "done"
    /\ all_papers # <<>>
    /\ all_papers[1].source = "Google Scholar"
    /\ all_papers[Len(all_papers)].source = "arXiv"

\* C9: of the calls of fetch_arxiv_papers with one query only the first sends
\* a request, and each returns the list the first returned.
C9_ArxivMemoized ==
    /\ \A q \in Queries : provider_calls["arXiv"][q] <= 1
    /\ future["arXiv"].state = "finished" /\ memo["arXiv"][query].seen
          => future["arXiv"].outcome.value = memo["arXiv"][query].value

\* A second call with the query of the first has returned its papers.
C9_Witness ==
    /\ future["arXiv"].state = "finished"
    /\ served["arXiv"][query] = 2
    /\ future["arXiv"].outcome.value # <<>>

\* C10: no client call ends in an exception; a fetch that failed returned a
\* list.
C10_ClientsNeverRaise ==
    \A s \in Sources :
        /\ ~future[s].outcome.raised
        /\ future[s].state = "finished" /\ future[s].failed => future[s].outcome.value = <<>>

\* A fetch failed and its call returned.
C10_Witness ==
    \E s \in Sources : future[s].state = "finished" /\ future[s].failed

\* What _make_request_with_retry has done so far agrees with the policy
RetryWithinPolicy ==
    /\ retry.requests <= 3
    /\ Len(retry.outcomes) = retry.requests
    /\ \A i \in 1..Len(retry.outcomes) : retry.outcomes[i] = "ok" => i = Len(retry.outcomes)
    /\ \A i \in 1..Len(retry.gaps) :
          retry.outcomes[i] = "429" => retry.gaps[i] >= i * MinRequestInterval * 2
    /\ retry.pc = "done" =>
          /\ retry.result \in {"response", "None"}
          /\ retry.result = "response" <=> retry.outcomes[Len(retry.outcomes)] = "ok"
          /\ retry.result = "None" => retry.requests = 3
    /\ retry.pc # "done" => retry.result = "none"

\* C11: _make_request_with_retry sends at most 3 requests and ends; it returns
\* the response of the first request that succeeds and sends none after it;
\* after a 429 at attempt a the next request leaves no sooner than
\* (a + 1) * _min_request_interval * 2 seconds later; after 3 failed requests
\* it returns None.
C11_RetryPolicy ==
    /\ []RetryWithinPolicy
    /\ (retry.pc = "gate") ~> (retry.pc = "done")

\* Two requests were answered 429 and waited for, a third failed, and None
\* was returned.
C11_Witness ==
    /\ retry.pc = "done"
    /\ retry.result = "None"
    /\ retry.requests = 3
    /\ retry.outcomes[1] = "429"
    /\ retry.outcomes[2] = "429"
    /\ retry.gaps = << wait_time(0), wait_time(1) >>

\* C12: the stages of generate_answer run in the order translator, researcher,
\* summarizer, presenter, each on the content of the one before it; once a
\* stage raises none is run after it and the fallback is returned; the
\* fallback is returned when the presenter's content is empty, the
\* presenter's content otherwise; the call ends in a returned string.
C12_PipelineFallback ==
    LET runs == pipeline.runs
        n == Len(runs)
    IN  /\ n <= 4
        /\ \A i \in 1..n :
              /\ runs[i].stage = <<"translator", "researcher", "summarizer", "presenter">>[i]
              /\ runs[i].input = IF i = 1 THEN pipeline.query ELSE runs[i - 1].content
              /\ runs[i].raised => i = n /\ pipeline.pc = "done"
        /\ pipeline.pc = "done" =>
              /\ n >= 1
              /\ ~runs[n].raised => n = 4
              /\ pipeline.result =
                    IF runs[n].raised \/ runs[n].content = ""
                    THEN FallbackResponse ELSE runs[n].content
        /\ pipeline.pc # "done" => pipeline.result = "none"

\* The presenter answered nothing after three stages that answered, and the
\* fallback was returned.
C12_Witness ==
    /\ pipeline.pc = "done"
    /\ Len(pipeline.runs) = 4
    /\ ~pipeline.runs[4].raised
    /\ pipeline.runs[4].content = ""
    /\ pipeline.runs[3].content # ""
    /\ pipeline.result = FallbackResponse

\* The topic terms found in the text calculate_relevance_score was called on
TermsPresent ==
    { tw \in ScoreTerms : Contains(Lower(scored.title \o <<" ">> \o scored.abstract), tw[1]) }

\* C13: calculate_relevance_score returns one of 0.5, 0.7, 0.8, 0.9, 1.0; 0.5
\* exactly when no topic term is in the lower-cased title and abstract; 1.0
\* whenever 'autism' is; and otherwise the weight of a term that is present
\* and no less than the weight of any term present, never their sum.
C13_ScoreIsMaxWeight ==
    scored.pc = "returned" =>
        /\ scored.score \in {5, 7, 8, 9, 10}
        /\ scored.score = 5 <=> TermsPresent = {}
        /\ <<tAutism, 10>> \in TermsPresent => scored.score = 10
        /\ TermsPresent # {} =>
              /\ \E tw \in TermsPresent : scored.score = tw[2]
              /\ \A tw \in TermsPresent : scored.score >= tw[2]

\* A text holding terms of two weights, and not 'autism', was scored the
\* larger weight.
C13_Witness ==
    /\ scored.pc = "returned"
    /\ \E tw, ux \in TermsPresent : tw[2] = 9 /\ ux[2] = 7
    /\ <<tAutism, 10>> \notin TermsPresent
    /\ scored.score = 9

\* The papers a memoized client makes of the results its provider holds
Normalised(s, q) ==
    IF s = "arXiv"
    THEN { ArxivPaper(ArxivResult(q, i)) : i \in 1..ARXIV_MAX_PAPERS }
    ELSE { PubmedPaper(PubmedRecord(q, i)) :
             i \in { j \in 1..PUBMED_MAX_PAPERS : "AB" \in DOMAIN PubmedRecord(q, j) } }

\* C14: no paper and no client's list is changed after it is made: every list
\* in a cache is, in contents and order, the list first stored for its query,
\* its papers as the client made them; a list a future has returned is the
\* list in the cache; and the papers fetch_all_papers returns are papers of
\* the clients' lists, every field as it was.
C14_NothingMutated ==
    /\ \A s \in Memoized : \A i \in 1..Len(cache[s]) :
          /\ memo[s][cache[s][i].key].seen
          /\ cache[s][i].value = memo[s][cache[s][i].key].value
          /\ Range(cache[s][i].value) \subseteq Normalised(s, cache[s][i].key)
    /\ \A s \in Memoized :
          future[s].state = "finished" => future[s].outcome.value = CacheValue(cache[s], query)
    /\ fpc = "done" => Range(returned) \subseteq Candidates

\* A second call of fetch_all_papers with the query of the first has
\* returned, its papers from the cached lists.
C14_Witness ==
    /\ fpc = "done"
    /\ calls = 2
    /\ \A s \in Memoized : served[s][query] = 2 /\ provider_calls[s][query] = 1
    /\ \E i \in 1..Len(returned) : returned[i].source = "arXiv"
    /\ \E i \in 1..Len(returned) : returned[i].source = "PubMed"

\* C15: whatever way the threads interleave at the gate, no two of them leave
\* it, each to send its request, less than the minimum interval apart.
C15_GateSpacesThreads == leaving.least >= MinRequestInterval

\* The entries the cache of fetch_arxiv_papers holds for query q
ArxivEntries(q) == { i \in 1..Len(cache["arXiv"]) : cache["arXiv"][i].key = q }

\* Every thread that has returned holds the whole list of one provider call:
\* the list stored in the cache after a hit, the list made of its own
\* answer after a miss
WholeLists ==
    \A t \in Threads :
        caller[t].pc = "returned" =>
            caller[t].result =
                IF caller[t].hit THEN CacheValue(cache["arXiv"], caller[t].query)
                ELSE ArxivCall(caller[t].query, caller[t].resp).value

\* C16: threads that call fetch_arxiv_papers with one query at the same time
\* make at most one provider call each; each gets the whole list of one
\* provider call; the cache holds at most one entry for the query, and once it
\* holds one no call with the query makes a provider call.
C16_BenignRace ==
    /\ [](/\ \A q \in Queries : provider_calls["arXiv"][q] <= NumThreads
          /\ \A q \in Queries : Cardinality(ArxivEntries(q)) <= 1
          /\ WholeLists)
    /\ [][\A q \in Queries :
             ArxivEntries(q) # {} =>
                 provider_calls'["arXiv"][q] = provider_calls["arXiv"][q]]_vars

\* Two threads missed on one query and got different lists, and a later call
\* with the query was answered from the cache.
C16_Witness ==
    \E t, u \in Threads :
        /\ t # u
        /\ caller[t].pc = "returned" /\ caller[u].pc = "returned"
        /\ caller[t].query = caller[u].query
        /\ provider_calls["arXiv"][caller[t].query] = 2
        /\ caller[t].calls = 2 /\ caller[t].hit
        /\ ~caller[u].hit /\ caller[u].result # caller[t].result
        /\ Cardinality(ArxivEntries(caller[t].query)) = 1

\* The relevant papers fetch_pubmed_papers makes of the first n records
PubmedParsed(q, n) == PubmedTry(q, [n |-> n, err |-> FALSE]).value

\* The papers fetch_scholar_papers has appended after the first n results
RECURSIVE ScholarAppended(_, _)
ScholarAppended(q, n) ==
    IF n = 0 THEN <<>> ELSE ScholarTurn(ScholarAppended(q, n - 1), q, n)

\* The relevant papers fetch_scholar_papers makes of the first n results
ScholarParsed(q, n) == filter_papers(ScholarAppended(q, n))

\* C17: a fetch of PubMed or of Google Scholar that fails after some records
\* were parsed returns the relevant papers parsed before the failure.
C17_PartialResultsKept ==
    /\ future["PubMed"].state = "finished" /\ future["PubMed"].failed
          => future["PubMed"].outcome.value = PubmedParsed(query, parsed["PubMed"])
    /\ future["Google Scholar"].state = "finished"
          => future["Google Scholar"].outcome.value
                = ScholarParsed(query, parsed["Google Scholar"])

\* The i-th raw result for query q is a dict with a dict under 'bib' and is
\* handled without an exception
WellFormedAt(q, i) ==
    /\ ~ScholarResultRaises(q, i)
    /\ ScholarResult(q, i).type = "dict"
    /\ "bib" \in DOMAIN ScholarResult(q, i).items
    /\ ScholarResult(q, i).items.bib.type = "dict"

\* The title and abstract of the i-th raw result, as the provider gave them
RawRelevantAt(q, i) ==
    LET bib == ScholarResult(q, i).items.bib.items
    IN  is_autism_related(Get(bib, "title", NoTitle), Get(bib, "abstract", NoAbstract))

\* The title and abstract of the Paper made of the i-th raw result
StoredRelevantAt(q, i) ==
    LET paper == ScholarPaper(ScholarResult(q, i))
    IN  is_autism_related(paper.title, paper.abstract)

\* The papers of the well-formed relevant results among the first n, in order;
\* relevance is judged on the stored fields, or on the raw ones
ScholarExpected(q, n, stored) ==
    LET Picked(i) == /\ WellFormedAt(q, i)
                     /\ IF stored THEN StoredRelevantAt(q, i) ELSE RawRelevantAt(q, i)
        picked == SelectSeq([i \in 1..n |-> i], Picked)
    IN  [k \in 1..Len(picked) |-> ScholarPaper(ScholarResult(q, picked[k]))]

\* C18 as stated: fetch_scholar_papers reads at most 5 raw results and returns
\* at most 5 papers: in their order, the papers of every result read that is
\* well formed, handled without an exception, and relevant.
C18_EveryRelevantRecord ==
    future["Google Scholar"].state = "finished" /\ ~future["Google Scholar"].failed =>
        /\ parsed["Google Scholar"] <= SCHOLAR_MAX_PAPERS
        /\ Len(future["Google Scholar"].outcome.value) <= SCHOLAR_MAX_PAPERS
        /\ future["Google Scholar"].outcome.value
              = ScholarExpected(query, parsed["Google Scholar"], FALSE)

\* C18 as amended: fetch_scholar_papers reads at most 5 raw results and
\* returns at most 5 papers: in their order, the papers of every result read
\* that is well formed, handled without an exception, and relevant by the
\* title and abstract its Paper stores, cut to 500 and 2000 characters.
C18_EveryStoredRelevantRecord ==
    future["Google Scholar"].state = "finished" /\ ~future["Google Scholar"].failed =>
        /\ parsed["Google Scholar"] <= SCHOLAR_MAX_PAPERS
        /\ Len(future["Google Scholar"].outcome.value) <= SCHOLAR_MAX_PAPERS
        /\ future["Google Scholar"].outcome.value
              = ScholarExpected(query, parsed["Google Scholar"], TRUE)

\* Five results were read, one of them malformed, one raising and one
\* relevant only past the cut, and the paper of a later one was returned.
C18_Witness ==
    /\ future["Google Scholar"].state = "finished"
    /\ parsed["Google Scholar"] = 5
    /\ \E i, j, k \in 1..5 :
          /\ ScholarResultRaises(query, i)
          /\ ScholarResult(query, j).type # "dict"
          /\ WellFormedAt(query, k) /\ RawRelevantAt(query, k) /\ ~StoredRelevantAt(query, k)
    /\ \E m \in 4..5 :
          /\ WellFormedAt(query, m)
          /\ future["Google Scholar"].outcome.value = << ScholarPaper(ScholarResult(query, m)) >>


\* Of the queries cache s holds, the one asked least recently
LeastRecentlyUsed(s) ==
    LET Held(q) == CacheHas(cache[s], q)
    IN  Head(SelectSeq(recency[s], Held))

\* Cache s holds at most CACHE_SIZE entries, one per query
CacheBounded(s) ==
    /\ Len(cache[s]) <= CACHE_SIZE
    /\ \A i, j \in 1..Len(cache[s]) : cache[s][i].key = cache[s][j].key => i = j

\* A step that removes a query from cache s removes the least recently used
\* one, from a full cache, for a query that was not held
EvictsLeastRecentlyUsed(s) ==
    \A i \in 1..Len(cache[s]) :
        ~CacheHas(cache'[s], cache[s][i].key) =>
            /\ Len(cache[s]) = CACHE_SIZE
            /\ cache[s][i].key = LeastRecentlyUsed(s)
            /\ Len(cache'[s]) = CACHE_SIZE
            /\ \E k \in 1..Len(cache'[s]) : ~CacheHas(cache[s], cache'[s][k].key)

\* C19: after any sequence of calls of a memoized client its cache holds at
\* most CACHE_SIZE (128) entries, and a new query stored in a full cache
\* evicts the least recently used entry and no other.
C19_BoundedLRU ==
    /\ [](\A s \in Memoized : CacheBounded(s))
    /\ [][\A s \in Memoized : EvictsLeastRecentlyUsed(s)]_vars

\* A full cache has evicted the second query and kept the first, which was
\* asked again before its turn to leave came.
C19_Witness ==
    \E s \in Memoized :
        /\ Len(cache[s]) = CACHE_SIZE
        /\ Len(recency[s]) > CACHE_SIZE
        /\ CacheHas(cache[s], 1)
        /\ ~CacheHas(cache[s], 2)


\* Whether the client of source s builds a Paper of the i-th record of query
\* q, and so calls calculate_relevance_score on it
ScoredAt(s, q, i) ==
    IF s = "arXiv" THEN TRUE
    ELSE IF s = "PubMed" THEN "AB" \in DOMAIN PubmedRecord(q, i)
    ELSE WellFormedAt(q, i)

\* The title and abstract the client of source s hands to
\* calculate_relevance_score for the i-th record of query q
ScoredText(s, q, i) ==
    IF s = "arXiv"
    THEN [title |-> ArxivResult(q, i).title, abstract |-> ArxivResult(q, i).summary]
    ELSE IF s = "PubMed"
    THEN [title |-> Get(PubmedRecord(q, i), "TI", NoTitle),
          abstract |-> Get(PubmedRecord(q, i), "AB", NoAbstract)]
    ELSE [title |-> Get(ScholarResult(q, i).items.bib.items, "title", NoTitle),
          abstract |-> Get(ScholarResult(q, i).items.bib.items, "abstract", NoAbstract)]

\* The scores of the terms' weights, in tenths
TermScores == {7, 8, 9, 10}

\* C20: every Paper a source client returns has a relevance_score of 0.7, 0.8,
\* 0.9 or 1.0, never the default 0.5; and on every title and abstract a client
\* scores, is_autism_related is true exactly when calculate_relevance_score is
\* not the default.
C20_NeverDefaultScore ==
    \A s \in Sources :
        future[s].state = "finished" =>
            /\ \A i \in 1..Len(future[s].outcome.value) :
                  future[s].outcome.value[i].relevance_score \in TermScores
            /\ \A i \in 1..parsed[s] :
                  ScoredAt(s, query, i) =>
                      LET text == ScoredText(s, query, i)
                      IN  is_autism_related(text.title, text.abstract)
                             <=> calculate_relevance_score(text.title, text.abstract)
                                    # DefaultScore

\* A client has returned a paper with the least weight, 0.7, and has dropped
\* a record that it scored 0.5.
C20_Witness ==
    \E s \in Sources :
        /\ future[s].state = "finished"
        /\ \E i \in 1..Len(future[s].outcome.value) :
              future[s].outcome.value[i].relevance_score = 7
        /\ \E i \in 1..parsed[s] :
              /\ ScoredAt(s, query, i)
              /\ calculate_relevance_score(ScoredText(s, query, i).title,
                                           ScoredText(s, query, i).abstract) = DefaultScore


\* C21: the relevance_score of every Paper a source client returns is
\* calculate_relevance_score of the title and abstract the Paper stores.
C21_ScoreOfStoredText ==
    \A s \in Sources :
        future[s].state = "finished" =>
            \A i \in 1..Len(future[s].outcome.value) :
                LET p == future[s].outcome.value[i]
                IN  p.relevance_score = calculate_relevance_score(p.title, p.abstract)


\* C22: once a call of fetch_arxiv_papers or fetch_pubmed_papers with a query
\* has failed at the provider and returned the empty list, no later call with
\* the query sends a request, and each returns the empty list.
C22_FailureMemoized ==
    \A s \in Memoized :
        /\ \A q \in Queries :
              memo[s][q].seen /\ memo[s][q].failed =>
                  /\ provider_calls[s][q] = 1
                  /\ CacheHas(cache[s], q) /\ CacheValue(cache[s], q) = <<>>
        /\ memo[s][query].seen /\ memo[s][query].failed /\ future[s].state = "finished"
              => future[s].outcome = Returned(<<>>)

\* A second call with a query whose first call failed has returned the empty
\* list, though the provider holds relevant papers for the query.
C22_Witness ==
    \E s \in Memoized :
        /\ memo[s][query].seen /\ memo[s][query].failed
        /\ future[s].state = "finished" /\ ~future[s].failed
        /\ served[s][query] = 2
        /\ future[s].outcome.value = <<>>
        /\ MethodCall(s, query, [n |-> MaxRecords, err |-> FALSE]).value # <<>>


\* C23: with any threads calling fetch_all_papers at the same time on one
\* ResearchFetcher, every task submitted to the pool is eventually run, and
\* every call eventually returns.
C23_EveryCallReturns ==
    \A t \in Threads :
        /\ (pool.pc[t] = "submitting") ~> (pool.pc[t] = "done")
        /\ \A k \in 1..Len(Dispatch) :
              (pool.task[t][k] = "queued") ~> (pool.task[t][k] = "running")

\* Every worker is busy, one of them with a task of one thread, while a task
\* of another thread waits in the queue.
C23_Witness ==
    /\ Cardinality(PoolRunning) = MAX_WORKERS
    /\ \E t, u \in Threads :
          /\ t # u
          /\ \E k \in 1..Len(Dispatch) : pool.task[t][k] = "running"
          /\ pool.queue # <<>> /\ Head(pool.queue)[1] = u
====
